---- MODULE Spec2Model ----
(***************************************************************************)
(* Credit-to-GDP dashboards: the group-aware dashboard                     *)
(* (Multi-group-dash.py) and the single-group dashboard (EU-dash.py).      *)
(*                                                                         *)
(* Three specifications:                                                   *)
(*   SpecData   the data pipeline of both dashboards (load, filter,        *)
(*              describe, differences) applied to every CSV of a bounded   *)
(*              family;                                                    *)
(*   SpecRoute  display_page's routing of both dashboards;                 *)
(*   Spec       the group-aware dashboard served to several browsers.      *)
(***************************************************************************)
EXTENDS Integers, Sequences, FiniteSets, TLC

(***************************************************************************)
(* Values.  A float cell is <<x>> (the number x, in thousandths) or <<>>   *)
(* (NaN, a missing value); a datetime cell is <<yyyymmdd>> or <<>> (NaT).  *)
(***************************************************************************)
NaN ==
    <<>>

NaT ==
    <<>>

Num(x) ==
    <<x>>

isna(x) ==
    x = <<>>

\* float subtraction: NaN if either operand is NaN
Sub(a, b) ==
    IF isna(a) \/ isna(b) THEN NaN ELSE Num(a[1] - b[1])

(***************************************************************************)
(* A TIME_PERIOD label of the CSV is <<year, separator, n>>: "2020-Q1" is  *)
(* <<2020, "-Q", 1>>.  pd.to_datetime(..., errors='coerce') reads a        *)
(* quarter label as the first day of the quarter and anything else it      *)
(* cannot parse as NaT.                                                    *)
(***************************************************************************)
to_datetime(label) ==
    IF label[2] = "-Q" /\ label[3] \in 1..4
    THEN Num(label[1] * 10000 + (3 * (label[3] - 1) + 1) * 100 + 1)
    ELSE NaT

\* pd.read_csv: the rows of the response, indexed 0, 1, 2, ...
read_csv(csv) ==
    [i \in 1..Len(csv) |->
        [index |-> i - 1,
         TIME_PERIOD |-> csv[i].TIME_PERIOD,
         BORROWERS_CTY |-> csv[i].BORROWERS_CTY,
         OBS_VALUE |-> csv[i].OBS_VALUE]]

\* df['TIME_PERIOD'] = pd.to_datetime(df['TIME_PERIOD'], errors='coerce')
coerce_time_period(df) ==
    [i \in 1..Len(df) |-> [df[i] EXCEPT !.TIME_PERIOD = to_datetime(@)]]

dropna_keep(r) ==
    ~isna(r.TIME_PERIOD)

\* dropna whose result is thrown away: the frame keeps its NaT rows
dropna_result_unused(df) ==
    df

\* df.dropna(subset=['TIME_PERIOD'])
dropna(df) ==
    SelectSeq(df, dropna_keep)

\* the position of the previous row of the same country, 0 if there is none
prev_in_group(df, i) ==
    LET before == {j \in 1..(i - 1) : df[j].BORROWERS_CTY = df[i].BORROWERS_CTY}
    IN  IF before = {} THEN 0 ELSE CHOOSE j \in before : \A k \in before : k <= j

\* the difference taken over the whole column, without the groupby
ungrouped_diff(df) ==
    [i \in 1..Len(df) |->
        IF i = 1 THEN NaN ELSE Sub(df[i].OBS_VALUE, df[i - 1].OBS_VALUE)]

\* df.groupby('BORROWERS_CTY')['OBS_VALUE'].diff()
groupby_diff(df) ==
    [i \in 1..Len(df) |->
        LET p == prev_in_group(df, i)
        IN  IF p = 0 THEN NaN ELSE Sub(df[i].OBS_VALUE, df[p].OBS_VALUE)]

\* load_data of the group-aware dashboard, given what pd.read_csv(url) fetched
load_data(csv) ==
    LET df == dropna(coerce_time_period(read_csv(csv)))
        change == groupby_diff(df)
    IN  [i \in 1..Len(df) |->
            [index |-> df[i].index,
             TIME_PERIOD |-> df[i].TIME_PERIOD,
             BORROWERS_CTY |-> df[i].BORROWERS_CTY,
             OBS_VALUE |-> df[i].OBS_VALUE,
             DAILY_CHANGE |-> change[i]]]

\* the module-level load of the single-group dashboard
eu_load(csv) ==
    dropna(coerce_time_period(read_csv(csv)))

(***************************************************************************)
(* Country filter of the callbacks.                                        *)
(***************************************************************************)
\* the filter without its 'all' branch
filtered_df_no_sentinel(df, selected_state) ==
    SelectSeq(df, LAMBDA r : r.BORROWERS_CTY = selected_state)

\* group-aware dashboard: update_line_chart, update_table, update_histogram
filtered_df(df, selected_state) ==
    IF selected_state = "all"
    THEN df
    ELSE SelectSeq(df, LAMBDA r : r.BORROWERS_CTY = selected_state)

\* single-group dashboard: update_time_series, update_statistics, update_histogram
filtered_data(df, selected_country) ==
    IF selected_country = "all"
    THEN df
    ELSE SelectSeq(df, LAMBDA r : r.BORROWERS_CTY = selected_country)

(***************************************************************************)
(* Series.describe() of OBS_VALUE.  A statistic is NaN or a fraction       *)
(* <<numerator, denominator>>, denominator > 0; std holds the fraction     *)
(* whose square root pandas reports (the sample variance).                 *)
(***************************************************************************)
RECURSIVE insert_sorted(_, _)
insert_sorted(x, s) ==
    IF s = <<>> THEN <<x>>
    ELSE IF x <= Head(s) THEN <<x>> \o s
    ELSE <<Head(s)>> \o insert_sorted(x, Tail(s))

RECURSIVE sort_numbers(_)
sort_numbers(s) ==
    IF s = <<>> THEN <<>> ELSE insert_sorted(Head(s), sort_numbers(Tail(s)))

RECURSIVE seq_sum(_)
seq_sum(s) ==
    IF s = <<>> THEN 0 ELSE Head(s) + seq_sum(Tail(s))

\* the non-missing values of the column, as numbers
valid_values(df) ==
    LET present == SelectSeq(df, LAMBDA r : ~isna(r.OBS_VALUE))
    IN  [i \in 1..Len(present) |-> present[i].OBS_VALUE[1]]

\* the q-th quartile (q = 1, 2, 3) of the sorted values xs, by linear interpolation
quantile(xs, q) ==
    LET n == Len(xs)
        pos == (n - 1) * q
        lo == (pos \div 4) + 1
        frac == pos % 4
    IN  IF frac = 0
        THEN <<4 * xs[lo], 4>>
        ELSE <<4 * xs[lo] + frac * (xs[lo + 1] - xs[lo]), 4>>

\* describe with the population standard deviation (ddof = 0)
describe_ddof0(df) ==
    LET xs == sort_numbers(valid_values(df))
        n == Len(xs)
        total == seq_sum(xs)
        squares == seq_sum([i \in 1..n |-> xs[i] * xs[i]])
    IN  [count |-> n,
         mean |-> IF n = 0 THEN NaN ELSE <<total, n>>,
         std |-> IF n = 0 THEN NaN ELSE <<n * squares - total * total, n * n>>,
         min |-> IF n = 0 THEN NaN ELSE <<xs[1], 1>>,
         p25 |-> IF n = 0 THEN NaN ELSE quantile(xs, 1),
         p50 |-> IF n = 0 THEN NaN ELSE quantile(xs, 2),
         p75 |-> IF n = 0 THEN NaN ELSE quantile(xs, 3),
         max |-> IF n = 0 THEN NaN ELSE <<xs[n], 1>>]

describe(df) ==
    LET xs == sort_numbers(valid_values(df))
        n == Len(xs)
        total == seq_sum(xs)
        squares == seq_sum([i \in 1..n |-> xs[i] * xs[i]])
    IN  [count |-> n,
         mean |-> IF n = 0 THEN NaN ELSE <<total, n>>,
         std |-> IF n < 2 THEN NaN ELSE <<n * squares - total * total, n * (n - 1)>>,
         min |-> IF n = 0 THEN NaN ELSE <<xs[1], 1>>,
         p25 |-> IF n = 0 THEN NaN ELSE quantile(xs, 1),
         p50 |-> IF n = 0 THEN NaN ELSE quantile(xs, 2),
         p75 |-> IF n = 0 THEN NaN ELSE quantile(xs, 3),
         max |-> IF n = 0 THEN NaN ELSE <<xs[n], 1>>]

(***************************************************************************)
(* Histogram of the single-group dashboard.                                *)
(***************************************************************************)
remove_at(s, i) ==
    SubSeq(s, 1, i - 1) \o SubSeq(s, i + 1, Len(s))

\* sort_values('TIME_PERIOD'): the default sort is not stable, so rows of one
\* period may come out in any order; this is the set of possible outcomes
RECURSIVE sort_values(_)
sort_values(df) ==
    IF df = <<>> THEN {<<>>}
    ELSE LET first == {i \in 1..Len(df) :
                          \A j \in 1..Len(df) :
                              df[i].TIME_PERIOD[1] <= df[j].TIME_PERIOD[1]}
         IN  UNION {{<<df[i]>> \o rest : rest \in sort_values(remove_at(df, i))} :
                        i \in first}

\* filtered_data['QUARTERLY_CHANGE'] = filtered_data['OBS_VALUE'].diff()
quarterly_change(df) ==
    [i \in 1..Len(df) |->
        [index |-> df[i].index,
         TIME_PERIOD |-> df[i].TIME_PERIOD,
         BORROWERS_CTY |-> df[i].BORROWERS_CTY,
         OBS_VALUE |-> df[i].OBS_VALUE,
         QUARTERLY_CHANGE |->
            IF i = 1 THEN NaN ELSE Sub(df[i].OBS_VALUE, df[i - 1].OBS_VALUE)]]

(***************************************************************************)
(* The group-aware dashboard: data sources, layouts, callbacks.            *)
(***************************************************************************)
\* DATA_GROUPS: each group's URL, held as the country codes of its query
DATA_GROUPS ==
    ("EU" :> <<"AT", "BE", "CZ", "DE", "DK", "ES", "FI", "FR", "GB", "GR", "HU",
               "IE", "IT", "LU", "NL", "PL", "PT", "SE">>) @@
    ("G20" :> <<"AR", "AU", "BR", "CA", "CN", "DE", "FR", "GB", "ID", "IN", "IT",
                "JP", "KR", "MX", "RU", "SA", "TR", "US", "ZA">>) @@
    ("Euro-area" :> <<"AT", "BE", "DE", "ES", "FI", "FR", "GR", "IE", "IT", "LU",
                      "NL", "PT", "XM">>) @@
    ("G8" :> <<"CA", "DE", "FR", "GB", "IT", "JP", "RU", "US">>) @@
    ("OECD" :> <<"AT", "AU", "BE", "CA", "CH", "CL", "CO", "CZ", "DE", "DK", "ES",
                 "FI", "FR", "GB", "GR", "HU", "IE", "IL", "IT", "JP", "KR", "LU",
                 "MX", "NL", "NO", "NZ", "PL", "PT", "SE", "TR", "US">>)

DEFAULT_DATASET ==
    "EU"

\* the country codes in the order Python's sorted() puts them
CountryOrder ==
    <<"AR", "AT", "AU", "BE", "BR", "CA", "CH", "CL", "CN", "CO", "CZ", "DE", "DK",
      "ES", "FI", "FR", "GB", "GR", "HU", "ID", "IE", "IL", "IN", "IT", "JP", "KR",
      "LU", "MX", "NL", "NO", "NZ", "PL", "PT", "RU", "SA", "SE", "TR", "US", "XM",
      "ZA">>

rank(c) ==
    CHOOSE i \in 1..Len(CountryOrder) : CountryOrder[i] = c

\* countries of a query that the modelled response carries
MaxCountriesPerGroup ==
    3

\* quarters, from 2020-Q1 on, that the modelled response carries
NumPeriods ==
    2

\* What the statistics service answers to a URL: for each quarter one row per
\* requested country (the last country first), and after the first row a row
\* whose period cannot be parsed.
bis_response(url) ==
    LET k == IF Len(url) < MaxCountriesPerGroup THEN Len(url) ELSE MaxCountriesPerGroup
        obs == [i \in 1..(k * NumPeriods) |->
                   LET q == (i - 1) \div k
                       c == url[k - ((i - 1) % k)]
                   IN  [TIME_PERIOD |-> <<2020 + (q \div 4), "-Q", (q % 4) + 1>>,
                        BORROWERS_CTY |-> c,
                        OBS_VALUE |-> Num(10 * rank(c) + 17 * q + 3)]]
        bad == [TIME_PERIOD |-> <<2020, "-X", 1>>,
                BORROWERS_CTY |-> url[1],
                OBS_VALUE |-> Num(999)]
    IN  IF obs = <<>> THEN <<bad>> ELSE <<obs[1], bad>> \o Tail(obs)

\* number of rows of the preview table
PreviewRows ==
    10

\* round(2) of a float cell held in thousandths: to the nearest hundredth, a tie to even
round2(x) ==
    IF isna(x) THEN NaN
    ELSE LET q == x[1] \div 10
             r == x[1] % 10
         IN  IF r < 5 \/ (r = 5 /\ q % 2 = 0) THEN Num(10 * q) ELSE Num(10 * (q + 1))

\* df.head(10).copy().round(2)
preview_of(df) ==
    LET n == IF Len(df) < PreviewRows THEN Len(df) ELSE PreviewRows
    IN  [i \in 1..n |->
            [df[i] EXCEPT !.OBS_VALUE = round2(@), !.DAILY_CHANGE = round2(@)]]

RECURSIVE sorted(_)
\* sorted(...) of a set of country codes
sorted(codes) ==
    IF codes = {} THEN <<>>
    ELSE LET least == CHOOSE c \in codes : \A e \in codes : rank(c) <= rank(e)
         IN  <<least>> \o sorted(codes \ {least})

\* [{'label': 'All countries', 'value': 'all'}] + [{'label': c, 'value': c} ...]:
\* the option values
options_of(df) ==
    <<"all">> \o sorted({df[i].BORROWERS_CTY : i \in 1..Len(df)})

\* display_page without its '/preview' branch
layout_for_no_preview(pathname) ==
    CASE pathname = "/time-series" -> "time_series_layout"
      [] pathname = "/statistics" -> "statistics_layout"
      [] pathname = "/histogram" -> "histogram_layout"
      [] OTHER -> "selection_layout"

\* display_page, second half: the layout it returns for the pathname
layout_for(pathname) ==
    CASE pathname = "/time-series" -> "time_series_layout"
      [] pathname = "/statistics" -> "statistics_layout"
      [] pathname = "/histogram" -> "histogram_layout"
      [] pathname = "/preview" -> "home_layout"
      [] OTHER -> "selection_layout"

\* display_page, first half: the globals it rebinds for the stored group
display_page_globals(selected_dataset) ==
    LET selected == IF selected_dataset \in DOMAIN DATA_GROUPS
                    THEN selected_dataset ELSE DEFAULT_DATASET
        loaded == load_data(bis_response(DATA_GROUPS[selected]))
    IN  [df_preview |-> preview_of(loaded),
         dropdown_options |-> options_of(loaded)]

\* what a callback leaves alone
no_update ==
    "dash.no_update"

\* update_dataset without its "if n_clicks" test
update_dataset_unguarded(clicks, selected_group) ==
    <<"/preview", selected_group>>

\* update_dataset: <<url.pathname, selected-dataset.data>>
update_dataset_result(clicks, selected_group) ==
    IF clicks > 0 THEN <<"/preview", selected_group>> ELSE <<no_update, no_update>>

\* display_page of the single-group dashboard
eu_layout_for(pathname) ==
    CASE pathname = "/time-series" -> "time_series_layout"
      [] pathname = "/statistics" -> "statistics_layout"
      [] pathname = "/histogram" -> "histogram_layout"
      [] OTHER -> "homepage_layout"

(***************************************************************************)
(* SpecData: the pipeline on every CSV of a bounded family.                *)
(***************************************************************************)
MaxRows ==
    4

Countries ==
    {"AT", "BE"}

\* the rows a response is made of: two quarters of two countries, a row with
\* an unparsable period ("bad-date") and a row with a missing observation
CsvRows ==
    {[TIME_PERIOD |-> <<2020, "-Q", 1>>, BORROWERS_CTY |-> "AT", OBS_VALUE |-> Num(1000)],
     [TIME_PERIOD |-> <<2020, "-Q", 2>>, BORROWERS_CTY |-> "AT", OBS_VALUE |-> Num(1200)],
     [TIME_PERIOD |-> <<2020, "-Q", 1>>, BORROWERS_CTY |-> "BE", OBS_VALUE |-> Num(500)],
     [TIME_PERIOD |-> <<2020, "-Q", 2>>, BORROWERS_CTY |-> "BE", OBS_VALUE |-> Num(800)],
     [TIME_PERIOD |-> <<2020, "-X", 1>>, BORROWERS_CTY |-> "AT", OBS_VALUE |-> Num(990)],
     [TIME_PERIOD |-> <<2020, "-Q", 2>>, BORROWERS_CTY |-> "BE", OBS_VALUE |-> NaN]}

CsvFiles ==
    UNION {[1..n -> CsvRows] : n \in 0..MaxRows}

CountryKeys ==
    {"all"} \cup Countries

VARIABLES
    \* SpecData
    csv,                \* the rows pd.read_csv fetched
    variant,            \* which dashboard loaded them
    frame,              \* the loaded df
    view,               \* the output of the last data callback
    \* SpecRoute
    request,            \* the last request display_page handled
    children,           \* the layout it returned
    \* Spec: the process of the group-aware dashboard
    df,                 \* module-level df, loaded at import
    df_preview,         \* global df_preview
    dropdown_options,   \* global dropdown_options
    layouts,            \* the module-level layouts, built at import
    \* Spec: each browser
    pathname,           \* dcc.Location 'url'
    selected_dataset,   \* dcc.Store 'selected-dataset'
    page_content,       \* children of 'page-content'
    group_dropdown,     \* value of 'group-dropdown'
    n_clicks,           \* n_clicks of 'proceed-button' (0: None)
    country_value,      \* value of the country dropdown of the page
    pending,            \* the callback the browser has dispatched
    output              \* the graph or table the page's callback returned

dvars ==
    <<csv, variant, frame, view>>

rvars ==
    <<request, children>>

pvars ==
    <<df, df_preview, dropdown_options, layouts>>

bvars ==
    <<pathname, selected_dataset, page_content, group_dropdown, n_clicks,
      country_value, pending, output>>

vars ==
    <<dvars, rvars, pvars, bvars>>

Users ==
    {"u1", "u2"}

\* the pathnames the navigation bars link to
LinkedPathnames ==
    {"/", "/preview", "/time-series", "/statistics", "/histogram"}

\* the pathnames a request may carry
Pathnames ==
    LinkedPathnames \cup {"/unknown"}

NoView ==
    [kind |-> "none", key |-> "all", data |-> <<>>, stats |-> <<>>]

\* the variables of the pipeline, when another specification runs
DataIdle ==
    /\ csv = <<>>
    /\ variant = "unloaded"
    /\ frame = <<>>
    /\ view = NoView

\* the variables of the routing check, when another specification runs
RouteIdle ==
    /\ request = [variant |-> "none", pathname |-> "/", selected_dataset |-> DEFAULT_DATASET]
    /\ children = [single_group |-> "none", group_aware |-> "none"]

NoOutput ==
    [kind |-> "none", key |-> "all", data |-> <<>>, stats |-> <<>>]

NoPage ==
    [layout |-> "none", table |-> <<>>, options |-> <<>>]

\* the process after import: the default group is loaded and the layouts are built
ProcessStarted ==
    LET start == load_data(bis_response(DATA_GROUPS[DEFAULT_DATASET]))
    IN  /\ df = start
        /\ df_preview = preview_of(start)
        /\ dropdown_options = options_of(start)
        /\ layouts =
              [selection_layout |->
                  [layout |-> "selection_layout", table |-> <<>>, options |-> <<>>],
               home_layout |->
                  [layout |-> "home_layout", table |-> preview_of(start), options |-> <<>>],
               time_series_layout |->
                  [layout |-> "time_series_layout", table |-> <<>>,
                   options |-> options_of(start)],
               statistics_layout |->
                  [layout |-> "statistics_layout", table |-> <<>>,
                   options |-> options_of(start)],
               histogram_layout |->
                  [layout |-> "histogram_layout", table |-> <<>>,
                   options |-> options_of(start)]]

\* every browser has just opened the application at '/'
BrowsersOpened ==
    /\ pathname = [u \in Users |-> "/"]
    /\ selected_dataset = [u \in Users |-> DEFAULT_DATASET]
    /\ page_content = [u \in Users |-> NoPage]
    /\ group_dropdown = [u \in Users |-> DEFAULT_DATASET]
    /\ n_clicks = [u \in Users |-> 0]
    /\ country_value = [u \in Users |-> "all"]
    /\ pending = [u \in Users |-> "display_page"]
    /\ output = [u \in Users |-> NoOutput]

DataInit ==
    /\ csv \in CsvFiles
    /\ variant = "unloaded"
    /\ frame = <<>>
    /\ view = NoView
    /\ RouteIdle
    /\ ProcessStarted
    /\ BrowsersOpened

\* the group-aware dashboard loads the response
DataLoadGroupAware ==
    /\ variant = "unloaded"
    /\ variant' = "group-aware"
    /\ frame' = load_data(csv)
    /\ UNCHANGED <<csv, view, rvars, pvars, bvars>>

\* the single-group dashboard loads the response
DataLoadSingleGroup ==
    /\ variant = "unloaded"
    /\ variant' = "single-group"
    /\ frame' = eu_load(csv)
    /\ UNCHANGED <<csv, view, rvars, pvars, bvars>>

\* the country filter of the variant that loaded the frame
variant_filter(k) ==
    IF variant = "group-aware" THEN filtered_df(frame, k) ELSE filtered_data(frame, k)

\* update_line_chart / update_time_series: the rows handed to px.line
DataLineChart(k) ==
    /\ variant # "unloaded"
    /\ view = NoView
    /\ view' = [kind |-> "line", key |-> k, data |-> variant_filter(k), stats |-> <<>>]
    /\ UNCHANGED <<csv, variant, frame, rvars, pvars, bvars>>

\* update_table / update_statistics: describe() of the filtered OBS_VALUE
DataStatistics(k) ==
    /\ variant # "unloaded"
    /\ view = NoView
    /\ view' = [kind |-> "stats", key |-> k, data |-> variant_filter(k),
                stats |-> describe(variant_filter(k))]
    /\ UNCHANGED <<csv, variant, frame, rvars, pvars, bvars>>

\* update_histogram of the group-aware dashboard: the DAILY_CHANGE column of the subset
DataHistogramGroupAware(k) ==
    /\ variant = "group-aware"
    /\ view = NoView
    /\ view' = [kind |-> "histogram", key |-> k, data |-> filtered_df(frame, k),
                stats |-> <<>>]
    /\ UNCHANGED <<csv, variant, frame, rvars, pvars, bvars>>

\* update_histogram of the single-group dashboard
DataHistogramSingleGroup(k) ==
    /\ variant = "single-group"
    /\ view = NoView
    /\ \E ordered \in sort_values(filtered_data(frame, k)) :
          view' = [kind |-> "histogram", key |-> k, data |-> quarterly_change(ordered),
                   stats |-> <<>>]
    /\ UNCHANGED <<csv, variant, frame, rvars, pvars, bvars>>

\* the page is rendered again: its graph or table is empty until a callback fills it
DataRender ==
    /\ view # NoView
    /\ view' = NoView
    /\ UNCHANGED <<csv, variant, frame, rvars, pvars, bvars>>

DataNext ==
    \/ DataLoadGroupAware
    \/ DataLoadSingleGroup
    \/ \E k \in CountryKeys : DataLineChart(k)
    \/ \E k \in CountryKeys : DataStatistics(k)
    \/ \E k \in CountryKeys : DataHistogramGroupAware(k)
    \/ \E k \in CountryKeys : DataHistogramSingleGroup(k)
    \/ DataRender

SpecData ==
    DataInit /\ [][DataNext]_vars

(***************************************************************************)
(* SpecRoute: display_page of both dashboards on every pathname.           *)
(***************************************************************************)
\* what the 'selected-dataset' store may hand to display_page
StoredGroups ==
    DOMAIN DATA_GROUPS \cup {"unknown"}

RouteInit ==
    /\ DataIdle
    /\ RouteIdle
    /\ ProcessStarted
    /\ BrowsersOpened

\* display_page of the group-aware dashboard handles a request
RouteGroupAware(p, g, globals) ==
    /\ request' = [variant |-> "group-aware", pathname |-> p, selected_dataset |-> g]
    /\ children' = [children EXCEPT !.group_aware = layout_for(p)]
    /\ df_preview' = globals.df_preview
    /\ dropdown_options' = globals.dropdown_options
    /\ UNCHANGED <<dvars, df, layouts, bvars>>

\* display_page of the single-group dashboard handles a request
RouteSingleGroup(p) ==
    /\ request' = [variant |-> "single-group", pathname |-> p,
                   selected_dataset |-> DEFAULT_DATASET]
    /\ children' = [children EXCEPT !.single_group = eu_layout_for(p)]
    /\ UNCHANGED <<dvars, pvars, bvars>>

RouteNext ==
    \/ \E g \in StoredGroups : \E globals \in {display_page_globals(g)} :
          \E p \in Pathnames : RouteGroupAware(p, g, globals)
    \/ \E p \in Pathnames : RouteSingleGroup(p)

SpecRoute ==
    RouteInit /\ [][RouteNext]_vars

(***************************************************************************)
(* Spec: the group-aware dashboard and its browsers.                       *)
(***************************************************************************)
ChartLayouts ==
    {"time_series_layout", "statistics_layout", "histogram_layout"}

Init ==
    /\ DataIdle
    /\ RouteIdle
    /\ ProcessStarted
    /\ BrowsersOpened

\* display_page runs for browser u on pathname p, globals being what it
\* computed from the browser's store: it rebinds the globals and returns a
\* module-level layout; the browser shows it and dispatches the callbacks of
\* the components that appeared
Rendered(u, p, globals) ==
    /\ df_preview' = globals.df_preview
    /\ dropdown_options' = globals.dropdown_options
    /\ page_content' = [page_content EXCEPT ![u] = layouts[layout_for(p)]]
    /\ group_dropdown' = [group_dropdown EXCEPT ![u] = DEFAULT_DATASET]
    /\ n_clicks' = [n_clicks EXCEPT ![u] = 0]
    /\ country_value' = [country_value EXCEPT ![u] = "all"]
    /\ output' = [output EXCEPT ![u] = NoOutput]
    /\ pending' = [pending EXCEPT ![u] =
          IF layout_for(p) = "home_layout" THEN "none"
          ELSE IF layout_for(p) = "selection_layout" THEN "update_dataset"
          ELSE "callback"]
    /\ UNCHANGED <<df, layouts, selected_dataset>>

\* the user follows a link or types a URL: the pathname changes and display_page runs
Navigate(u, p, globals) ==
    /\ pending[u] = "none"
    /\ p # pathname[u]
    /\ pathname' = [pathname EXCEPT ![u] = p]
    /\ Rendered(u, p, globals)
    /\ UNCHANGED <<dvars, rvars>>

\* display_page runs for the pathname the browser already holds (the first
\* load, or the pathname update_dataset returned)
display_page(u, globals) ==
    /\ pending[u] = "display_page"
    /\ Rendered(u, pathname[u], globals)
    /\ UNCHANGED <<dvars, rvars, pathname>>

\* the user picks a group on the selection page
SelectGroup(u, g) ==
    /\ page_content[u].layout = "selection_layout"
    /\ pending[u] = "none"
    /\ g # group_dropdown[u]
    /\ group_dropdown' = [group_dropdown EXCEPT ![u] = g]
    /\ UNCHANGED <<dvars, rvars, pvars, pathname, selected_dataset, page_content,
                   n_clicks, country_value, pending, output>>

\* update_dataset runs: when the button appears (click = FALSE, n_clicks is
\* None) or when the user clicks Proceed (click = TRUE)
update_dataset(u, click) ==
    /\ page_content[u].layout = "selection_layout"
    /\ \/ click /\ pending[u] = "none"
       \/ ~click /\ pending[u] = "update_dataset"
    /\ LET n == IF click THEN n_clicks[u] + 1 ELSE n_clicks[u]
           r == update_dataset_result(n, group_dropdown[u])
       IN  /\ n_clicks' = [n_clicks EXCEPT ![u] = n]
           /\ pathname' = [pathname EXCEPT ![u] = IF r[1] = no_update THEN @ ELSE r[1]]
           /\ selected_dataset' =
                 [selected_dataset EXCEPT ![u] = IF r[2] = no_update THEN @ ELSE r[2]]
           /\ pending' = [pending EXCEPT ![u] =
                 IF r[1] = no_update THEN "none" ELSE "display_page"]
    /\ UNCHANGED <<dvars, rvars, pvars, page_content, group_dropdown, country_value, output>>

\* a chart, statistics or histogram callback of browser u is due with value k:
\* right after the page appeared (the dropdown holds 'all'), or when the user
\* picks another option of the dropdown
CallbackDue(u, layout, k) ==
    /\ page_content[u].layout = layout
    /\ \/ pending[u] = "callback" /\ k = country_value[u]
       \/ pending[u] = "none" /\ k # country_value[u]

\* the frame a callback reads: the module-level df instead of a fresh load
callback_frame_global(u) ==
    df

\* df = load_data(DATA_GROUPS[selected_dataset]), selected_dataset being the
\* State of the browser's own store
callback_frame(u) ==
    load_data(bis_response(DATA_GROUPS[selected_dataset[u]]))

Answered(u, k, result) ==
    /\ country_value' = [country_value EXCEPT ![u] = k]
    /\ output' = [output EXCEPT ![u] = result]
    /\ pending' = [pending EXCEPT ![u] = "none"]
    /\ UNCHANGED <<dvars, rvars, pvars, pathname, selected_dataset, page_content,
                   group_dropdown, n_clicks>>

update_line_chart(u, k) ==
    /\ CallbackDue(u, "time_series_layout", k)
    /\ \E d \in {filtered_df(callback_frame(u), k)} :
          Answered(u, k, [kind |-> "line", key |-> k, data |-> d, stats |-> <<>>])

update_table(u, k) ==
    /\ CallbackDue(u, "statistics_layout", k)
    /\ \E d \in {filtered_df(callback_frame(u), k)} :
          Answered(u, k, [kind |-> "stats", key |-> k, data |-> d, stats |-> describe(d)])

update_histogram(u, k) ==
    /\ CallbackDue(u, "histogram_layout", k)
    /\ \E d \in {filtered_df(callback_frame(u), k)} :
          Answered(u, k, [kind |-> "histogram", key |-> k, data |-> d, stats |-> <<>>])

\* the option values of the country dropdown browser u shows
OptionsShown(u) ==
    {page_content[u].options[i] : i \in 1..Len(page_content[u].options)}

Next ==
    \/ \E u \in Users :
          /\ pending[u] = "none"
          /\ \E globals \in {display_page_globals(selected_dataset[u])} :
                \E p \in LinkedPathnames : Navigate(u, p, globals)
    \/ \E u \in Users :
          /\ pending[u] = "display_page"
          /\ \E globals \in {display_page_globals(selected_dataset[u])} :
                display_page(u, globals)
    \/ \E u \in Users, g \in DOMAIN DATA_GROUPS : SelectGroup(u, g)
    \/ \E u \in Users, click \in BOOLEAN : update_dataset(u, click)
    \/ \E u \in Users : \E k \in OptionsShown(u) : update_line_chart(u, k)
    \/ \E u \in Users : \E k \in OptionsShown(u) : update_table(u, k)
    \/ \E u \in Users : \E k \in OptionsShown(u) : update_histogram(u, k)

Spec ==
    Init /\ [][Next]_vars

(***************************************************************************)
(* Properties of the pipeline (SpecData).                                  *)
(***************************************************************************)
\* two rows are the same observation of the loaded frame
SameObservation(r, s) ==
    /\ r.index = s.index
    /\ r.TIME_PERIOD = s.TIME_PERIOD
    /\ r.BORROWERS_CTY = s.BORROWERS_CTY
    /\ r.OBS_VALUE = s.OBS_VALUE

FracLeq(a, b) ==
    a[1] * b[2] <= b[1] * a[2]

FracEq(a, b) ==
    a[1] * b[2] = b[1] * a[2]

\* C1: the loaded frame of either dashboard is exactly the subsequence of the
\* CSV rows whose TIME_PERIOD label parses to a date, in their original order:
\* no retained row has a null period, no parseable row is dropped, and the
\* frame is never longer than the CSV.
C1_LoadKeepsParseableRows ==
    variant # "unloaded" =>
        LET kept == {i \in 1..Len(csv) : ~isna(to_datetime(csv[i].TIME_PERIOD))}
        IN  /\ Len(frame) = Cardinality(kept)
            /\ Len(frame) <= Len(csv)
            /\ \A j \in 1..Len(frame) :
                  LET i == frame[j].index + 1
                  IN  /\ i \in kept
                      /\ ~isna(frame[j].TIME_PERIOD)
                      /\ frame[j].TIME_PERIOD = to_datetime(csv[i].TIME_PERIOD)
                      /\ frame[j].BORROWERS_CTY = csv[i].BORROWERS_CTY
                      /\ frame[j].OBS_VALUE = csv[i].OBS_VALUE
            /\ \A j, k \in 1..Len(frame) : j < k => frame[j].index < frame[k].index

\* C1 witness: a three-row CSV whose middle row has an unparsable period was
\* loaded; the first and the third row are retained.
C1_Witness ==
    /\ variant # "unloaded"
    /\ Len(csv) = 3
    /\ isna(to_datetime(csv[2].TIME_PERIOD))
    /\ Len(frame) = 2
    /\ frame[1].index = 0
    /\ frame[2].index = 2

\* C2: the rows a chart, statistics or histogram callback works on are exactly
\* the rows of the loaded frame selected by the country key (all of them for
\* 'all', those of that country otherwise, possibly none), in the frame's
\* order, and filtering them again by the same key changes nothing.
C2_FilterSelectsCountry ==
    view.kind \in {"line", "stats", "histogram"} =>
        LET k == view.key
            d == view.data
            sel == {i \in 1..Len(frame) : k = "all" \/ frame[i].BORROWERS_CTY = k}
            sorted_after == variant = "single-group" /\ view.kind = "histogram"
        IN  /\ Len(d) = Cardinality(sel)
            /\ \A i \in sel : \E j \in 1..Len(d) : SameObservation(d[j], frame[i])
            /\ \A j \in 1..Len(d) : \E i \in sel : SameObservation(d[j], frame[i])
            /\ ~sorted_after =>
                  /\ \A j, l \in 1..Len(d) : j < l => d[j].index < d[l].index
                  /\ variant = "group-aware" => filtered_df(d, k) = d
                  /\ variant = "single-group" => filtered_data(d, k) = d
            /\ k = "all" /\ ~sorted_after => d = frame

\* C2 witness: a callback filtered a frame AT, BE, AT by 'AT' and got its first
\* and third row.
C2_Witness ==
    /\ view.kind = "line"
    /\ view.key = "AT"
    /\ Len(frame) = 3
    /\ frame[2].BORROWERS_CTY = "BE"
    /\ Len(view.data) = 2
    /\ view.data[2].index = frame[3].index

\* C3: load_data of the group-aware dashboard sets DAILY_CHANGE of every
\* retained row to its OBS_VALUE minus the OBS_VALUE of the nearest earlier
\* retained row of the same country, and to NaN when there is none; rows of
\* other countries in between do not matter.
C3_DailyChangeWithinCountry ==
    variant = "group-aware" =>
        \A i \in 1..Len(frame) :
            /\ (\A j \in 1..(i - 1) : frame[j].BORROWERS_CTY # frame[i].BORROWERS_CTY)
                  => isna(frame[i].DAILY_CHANGE)
            /\ \A j \in 1..(i - 1) :
                  (/\ frame[j].BORROWERS_CTY = frame[i].BORROWERS_CTY
                   /\ \A l \in (j + 1)..(i - 1) :
                         frame[l].BORROWERS_CTY # frame[i].BORROWERS_CTY)
                  => frame[i].DAILY_CHANGE = Sub(frame[i].OBS_VALUE, frame[j].OBS_VALUE)

\* C3 witness: the interleaved rows (AT,Q1,1.0), (BE,Q1,0.5), (AT,Q2,1.2),
\* (BE,Q2,0.8) were loaded; the changes are NaN, NaN, 0.2, 0.3.
C3_Witness ==
    /\ variant = "group-aware"
    /\ Len(frame) = 4
    /\ <<frame[1].BORROWERS_CTY, frame[2].BORROWERS_CTY,
         frame[3].BORROWERS_CTY, frame[4].BORROWERS_CTY>> = <<"AT", "BE", "AT", "BE">>
    /\ <<frame[1].OBS_VALUE, frame[2].OBS_VALUE,
         frame[3].OBS_VALUE, frame[4].OBS_VALUE>>
           = <<Num(1000), Num(500), Num(1200), Num(800)>>
    /\ <<frame[1].DAILY_CHANGE, frame[2].DAILY_CHANGE,
         frame[3].DAILY_CHANGE, frame[4].DAILY_CHANGE>>
           = <<NaN, NaN, Num(200), Num(300)>>

AllButCountNaN(st) ==
    /\ isna(st.mean) /\ isna(st.std) /\ isna(st.min) /\ isna(st.max)
    /\ isna(st.p25) /\ isna(st.p50) /\ isna(st.p75)

QuartilesOrdered(st) ==
    /\ ~isna(st.min) /\ ~isna(st.p25) /\ ~isna(st.p50) /\ ~isna(st.p75) /\ ~isna(st.max)
    /\ FracLeq(st.min, st.p25)
    /\ FracLeq(st.p25, st.p50)
    /\ FracLeq(st.p50, st.p75)
    /\ FracLeq(st.p75, st.max)

\* C9 as claimed: count is the number of rows of the subset; an empty subset
\* has count 0 and nothing else available; a single-row subset has count 1, no
\* std, and min = max = mean = the row's value; min <= 25% <= 50% <= 75% <= max.
C9_CountIsNumberOfRows ==
    view.kind = "stats" =>
        LET st == view.stats
            d == view.data
        IN  /\ st.count = Len(d)
            /\ Len(d) = 0 => AllButCountNaN(st)
            /\ Len(d) = 1 =>
                  /\ isna(st.std)
                  /\ ~isna(d[1].OBS_VALUE) /\ ~isna(st.min) /\ ~isna(st.max) /\ ~isna(st.mean)
                  /\ FracEq(st.min, <<d[1].OBS_VALUE[1], 1>>)
                  /\ FracEq(st.max, <<d[1].OBS_VALUE[1], 1>>)
                  /\ FracEq(st.mean, <<d[1].OBS_VALUE[1], 1>>)
            /\ Len(d) >= 1 => QuartilesOrdered(st)

\* C9, amended: count is the number of rows of the subset whose OBS_VALUE is
\* not missing; with count 0 nothing else is available; with count 1 there is
\* no std and min = max = mean = the one value present; with count >= 1,
\* min <= 25% <= 50% <= 75% <= max.
C9_CountIsNumberOfValues ==
    view.kind = "stats" =>
        LET st == view.stats
            d == view.data
            present == {i \in 1..Len(d) : ~isna(d[i].OBS_VALUE)}
        IN  /\ st.count = Cardinality(present)
            /\ present = {} => AllButCountNaN(st)
            /\ Cardinality(present) = 1 =>
                  LET x == d[CHOOSE i \in present : TRUE].OBS_VALUE[1]
                  IN  /\ isna(st.std)
                      /\ ~isna(st.min) /\ ~isna(st.max) /\ ~isna(st.mean)
                      /\ FracEq(st.min, <<x, 1>>)
                      /\ FracEq(st.max, <<x, 1>>)
                      /\ FracEq(st.mean, <<x, 1>>)
            /\ Cardinality(present) >= 2 => ~isna(st.std)
            /\ present # {} => QuartilesOrdered(st)

\* C9 witness: statistics of a two-row subset one of whose observations is
\* missing: count is 1 and std is not available.
C9_Witness ==
    /\ view.kind = "stats"
    /\ Len(view.data) = 2
    /\ view.stats.count = 1
    /\ isna(view.stats.std)
    /\ ~isna(view.stats.mean)

\* C10: in the single-group dashboard's histogram every change is the
\* difference to the chronologically previous observation of the same
\* country, and a country's first observation has none; for every selection,
\* 'all' included.
C10_QuarterlyChangeWithinCountry ==
    (view.kind = "histogram" /\ variant = "single-group") =>
        LET d == view.data
        IN  \A i \in 1..Len(d) :
                LET before == {j \in 1..(i - 1) : d[j].BORROWERS_CTY = d[i].BORROWERS_CTY}
                IN  IF before = {}
                    THEN isna(d[i].QUARTERLY_CHANGE)
                    ELSE LET p == CHOOSE j \in before : \A l \in before : l <= j
                         IN  d[i].QUARTERLY_CHANGE = Sub(d[i].OBS_VALUE, d[p].OBS_VALUE)

(***************************************************************************)
(* Properties of the routing (SpecRoute).                                  *)
(***************************************************************************)
\* the layout display_page returned for the last request
Shown ==
    IF request.variant = "single-group" THEN children.single_group
    ELSE children.group_aware

\* the layouts that hold the dataset preview table
PreviewLayouts ==
    {"home_layout", "homepage_layout"}

\* C8: display_page is total and routes by pathname alone, whatever the stored
\* group and the page shown before: '/time-series', '/statistics' and
\* '/histogram' render their page and '/preview' the preview table in both
\* dashboards; '/' and every other pathname render the preview table in the
\* single-group dashboard and the group selection page in the group-aware one.
C8_RoutesByPathname ==
    request.variant # "none" =>
        /\ request.pathname = "/time-series" => Shown = "time_series_layout"
        /\ request.pathname = "/statistics" => Shown = "statistics_layout"
        /\ request.pathname = "/histogram" => Shown = "histogram_layout"
        /\ request.pathname = "/preview" => Shown \in PreviewLayouts
        /\ request.pathname \notin {"/time-series", "/statistics", "/histogram", "/preview"} =>
              Shown = IF request.variant = "single-group"
                      THEN "homepage_layout" ELSE "selection_layout"

\* C8 as stated: '/' and '/preview' both render the preview table, in both dashboards
C8_RootRendersPreview ==
    request.variant # "none" =>
        /\ request.pathname = "/time-series" => Shown = "time_series_layout"
        /\ request.pathname = "/statistics" => Shown = "statistics_layout"
        /\ request.pathname = "/histogram" => Shown = "histogram_layout"
        /\ request.pathname \in {"/", "/preview"} => Shown \in PreviewLayouts

\* both dashboards have served '/', the group-aware one last and with a stored
\* group other than the default: one shows the preview, the other the selection
C8_Witness ==
    /\ request.variant = "group-aware"
    /\ request.pathname = "/"
    /\ request.selected_dataset = "G20"
    /\ children.group_aware = "selection_layout"
    /\ children.single_group = "homepage_layout"

(***************************************************************************)
(* Properties of the group-aware dashboard and its browsers (Spec).        *)
(***************************************************************************)
\* the dataset of the group browser u has selected, freshly loaded
fresh_dataset(u) ==
    load_data(bis_response(DATA_GROUPS[selected_dataset[u]]))

\* C4: the country options of a time-series, statistics or histogram page are
\* 'all' plus the sorted distinct countries of the freshly loaded dataset of
\* the group its browser has selected.
C4_OptionsOfSelectedGroup ==
    \A u \in Users :
        page_content[u].layout \in ChartLayouts =>
            page_content[u].options = options_of(fresh_dataset(u))

\* C5: every rendered view (preview table, chart, statistics, histogram) is
\* computed from the freshly loaded dataset of the group its browser has selected.
C5_ViewsOfSelectedGroup ==
    \A u \in Users :
        /\ page_content[u].layout = "home_layout" =>
              page_content[u].table = preview_of(fresh_dataset(u))
        /\ output[u].kind # "none" =>
              output[u].data = filtered_df(fresh_dataset(u), output[u].key)

\* display_page has answered browser u in this step: after a link was followed
\* or for the pathname the browser already held
PageServed(u) ==
    /\ pending'[u] # "display_page"
    /\ pathname'[u] # pathname[u] \/ pending[u] = "display_page"

\* the user of browser u has clicked Proceed in this step
ProceedClicked(u) ==
    n_clicks'[u] = n_clicks[u] + 1

\* C6: a navigate request handled by display_page sets the displayed page and
\* leaves the browser's 'selected-dataset' store unchanged; the store changes,
\* and update_dataset redirects, only on a Proceed click of the selection page,
\* which sets the store to the value of the group dropdown and the pathname to
\* '/preview'.
C6_NavigateKeepsSelectedGroup ==
    [][\A u \in Users :
          /\ PageServed(u) =>
                /\ selected_dataset'[u] = selected_dataset[u]
                /\ page_content'[u].layout = layout_for(pathname'[u])
          /\ selected_dataset'[u] # selected_dataset[u] => ProceedClicked(u)
          /\ (pending[u] # "display_page" /\ pending'[u] = "display_page") =>
                ProceedClicked(u)
          /\ ProceedClicked(u) =>
                /\ page_content[u].layout = "selection_layout"
                /\ selected_dataset'[u] = group_dropdown[u]
                /\ pathname'[u] = "/preview"]_vars

\* a browser that selected G20 is back on the selection page, whose dropdown
\* shows the default group again, and nothing was clicked there
C6_Witness ==
    \E u \in Users :
        /\ selected_dataset[u] = "G20"
        /\ pathname[u] = "/"
        /\ page_content[u].layout = "selection_layout"
        /\ group_dropdown[u] = DEFAULT_DATASET
        /\ n_clicks[u] = 0
        /\ pending[u] = "none"

\* C7 as stated: the selected group is one value shared by all users, and the
\* charts, statistics and histograms of a user follow the group any user selected
C7_SelectionSharedByAllUsers ==
    \A u, v \in Users :
        /\ selected_dataset[u] = selected_dataset[v]
        /\ output[v].kind # "none" =>
              output[v].data = filtered_df(fresh_dataset(u), output[v].key)

\* C7: the selected group is held by each browser: a chart, statistics table
\* or histogram of a user is computed from the dataset of the group in that
\* user's own store, whatever group the other users selected and whatever
\* display_page last bound to the process-wide globals.
C7_ViewsFollowOwnSelection ==
    \A u \in Users :
        output[u].kind # "none" =>
            /\ output[u].data = filtered_df(fresh_dataset(u), output[u].key)
            /\ output[u].kind = "stats" => output[u].stats = describe(output[u].data)

\* two users hold different groups and each sees the chart of its own, the
\* globals holding what display_page bound for the other user
C7_Witness ==
    \E u, v \in Users :
        /\ selected_dataset[u] = "G20"
        /\ selected_dataset[v] = "EU"
        /\ output[u].kind = "line" /\ output[u].key = "all"
        /\ output[v].kind = "line" /\ output[v].key = "all"
        /\ output[u].data = load_data(bis_response(DATA_GROUPS["G20"]))
        /\ output[v].data = load_data(bis_response(DATA_GROUPS["EU"]))
        /\ output[u].data # output[v].data
        /\ dropdown_options = options_of(output[v].data)

====
